---- MODULE Spec2Model ----
(***************************************************************************)
(* Model of src/src/crypto_prices/scraper.py: the market-rate resolution   *)
(* with retry and backoff (get_market_rate), the rate cache and the sweep  *)
(* of main(), the quote fetch (get_quotes) and the per-quote derivation of *)
(* spread and fee metrics.                                                 *)
(*                                                                         *)
(* Numbers.  Python ints and floats are modelled as exact rationals        *)
(* <<numerator, denominator>> in lowest terms with a positive denominator; *)
(* Python's None (also: a JSON key that is absent and read with .get) is   *)
(* the pair <<0, 0>>.  IEEE rounding is not modelled.                      *)
(***************************************************************************)
EXTENDS Integers, Sequences, FiniteSets, TLC

VARIABLES
    pc,                 \* position of main(): "lookup", "rate", "fetch", "insert", "done", "crashed"
    ai, ci, ri, pi,     \* loop indices: amount, crypto, region, payment method
    market_rates_cache, \* dict cache_key -> rate or None
    market_rate,        \* local of main(), line 196
    rows_to_insert,     \* local of main(), line 198
    quotes_data,        \* outcome of the latest get_quotes call
    batch_base,         \* len(rows_to_insert) when the latest get_quotes call was made
    i, delay,           \* locals of get_market_rate
    responses,          \* outcomes of the upstream requests made for the current combination
    sleeps,             \* arguments of time.sleep in get_market_rate for the current combination
    ret,                \* value returned by the latest get_market_rate call
    lookups,            \* per cache key: times line 187 was evaluated
    rateCalls,          \* per cache key: times get_market_rate was called
    delayed,            \* time.sleep(0.1) has run since the latest get_quotes call
    inserted            \* <<>> or <<rows>>: argument of insert_rows_json for the current combination

vars == <<pc, ai, ci, ri, pi, market_rates_cache, market_rate, rows_to_insert,
          quotes_data, batch_base, i, delay, responses, sleeps, ret,
          lookups, rateCalls, delayed, inserted>>

----------------------------------------------------------------------------
(* Bounds of the model *)

NumAmounts == 2
NumCryptos == 1
NumRegions == 2
NumMethods == 2
MaxProviders == 2

----------------------------------------------------------------------------
(* Numbers *)

None == <<0, 0>>

RECURSIVE GCD(_, _)
GCD(a, b) == IF b = 0 THEN a ELSE GCD(b, a % b)

Abs(n) == IF n < 0 THEN -n ELSE n

Num(n, d) ==
    LET s == IF d < 0 THEN -1 ELSE 1
        g == GCD(Abs(n), Abs(d))
    IN  <<(s * n) \div g, (s * d) \div g>>

Zero == <<0, 1>>

Add(x, y) == Num(x[1] * y[2] + y[1] * x[2], x[2] * y[2])

Sub(x, y) == Num(x[1] * y[2] - y[1] * x[2], x[2] * y[2])

Mul(x, y) == Num(x[1] * y[1], x[2] * y[2])

Div(x, y) == Num(x[1] * y[2], x[2] * y[1])

Gt0(x) == x[1] > 0

\* Python truth value of None or a number
Truthy(x) == x # None /\ x[1] # 0

\* dict.get(key, default) of a key that may be absent
GetDefault(x, dflt) == IF x = None THEN dflt ELSE x

Min(S) == CHOOSE m \in S : \A n \in S : m <= n

----------------------------------------------------------------------------
(* Configuration of main() *)

retries == 3

InitialDelay == 1

PRICE_RANGE == [k \in 1..NumAmounts |-> IF k = 1 THEN 30 ELSE 100 + (k - 2) * 1000]

regions == SubSeq(<<"de", "gb", "us-va">>, 1, NumRegions)

CurrencyOf(region_code) ==
    CASE region_code = "de" -> "EUR"
      [] region_code = "gb" -> "GBP"
      [] region_code = "us-va" -> "USD"

crypto_currencies ==
    SubSeq(<<"ETH (Mainnet)", "USDT (Ethereum)", "USDT (BNB Chain)">>, 1, NumCryptos)

CryptoIdOf(crypto_name) ==
    CASE crypto_name = "ETH (Mainnet)" ->
            "/currencies/crypto/1/0x0000000000000000000000000000000000000000"
      [] crypto_name = "USDT (Ethereum)" ->
            "/currencies/crypto/1/0xdac17f958d2ee523a2206206994597c13d831ec7"
      [] crypto_name = "USDT (BNB Chain)" ->
            "/currencies/crypto/56/0x55d398326f99059ff775485246999027b3197955"

AllMethods(region_code) ==
    CASE region_code = "de" ->
            <<"sepa-bank-transfer", "rev-pay", "debit-credit-card", "paypal", "binance-p2p">>
      [] region_code = "gb" ->
            <<"debit-credit-card", "gbp-bank-transfer", "rev-pay", "paypal">>
      [] region_code = "us-va" ->
            <<"venmo", "debit-credit-card", "paypal", "instant-bank-transfer">>

payment_methods_by_region(region_code) ==
    LET all == AllMethods(region_code)
    IN  SubSeq(all, 1, IF NumMethods < Len(all) THEN NumMethods ELSE Len(all))

----------------------------------------------------------------------------
(* Per-quote derivation, main() lines 207-265 *)

\* line 207
ProviderName(item) == IF item.name = "<absent>" THEN "N/A" ELSE item.name

\* line 222
RateUsable_NoSign(rate, amount_in) == Truthy(rate) /\ Truthy(amount_in)

RateUsable(rate, amount_in) == Truthy(rate) /\ Gt0(rate) /\ Truthy(amount_in)

\* lines 225-226
ExpectedAmountOut_NoExtra(amount_in, network_fee, provider_fee, extra_fee, rate) ==
    Div(Sub(Sub(amount_in, network_fee), provider_fee), rate)

ExpectedAmountOut(amount_in, network_fee, provider_fee, extra_fee, rate) ==
    Div(Sub(Sub(Sub(amount_in, network_fee), provider_fee), extra_fee), rate)

\* line 231
SpreadPercentage(spread, expected_amount_out) ==
    IF Gt0(expected_amount_out)
    THEN Mul(Div(spread, expected_amount_out), Num(100, 1))
    ELSE Zero

\* line 242: None > 0 raises TypeError
FeePercentageRaises(amount_in) == amount_in = None

TotalFeePercentage(total_fee_including_spread, amount_in) ==
    IF Gt0(amount_in)
    THEN Mul(Div(total_fee_including_spread, amount_in), Num(100, 1))
    ELSE Zero

DeriveRow(item, rank, rate, ctx) ==
    LET amount_in    == item.amountIn
        amount_out   == item.amountOut
        network_fee  == GetDefault(item.networkFee, Zero)
        provider_fee == GetDefault(item.providerFee, Zero)
        extra_fee    == GetDefault(item.extraFee, Zero)
        usable       == RateUsable(rate, amount_in)
        expected_amount_out ==
            IF usable
            THEN ExpectedAmountOut(amount_in, network_fee, provider_fee, extra_fee, rate)
            ELSE Zero
        has_spread   == usable /\ Truthy(amount_out)
        spread       == IF has_spread THEN Sub(expected_amount_out, amount_out) ELSE Zero
        spread_percentage ==
            IF has_spread THEN SpreadPercentage(spread, expected_amount_out) ELSE Zero
        spread_in_fiat == IF has_spread THEN Mul(spread, rate) ELSE Zero
        total_explicit_fee == Add(Add(network_fee, provider_fee), extra_fee)
        total_fee_including_spread == Add(total_explicit_fee, spread_in_fiat)
    IN  [ Amount |-> amount_in,
          FiatCurrency |-> ctx.currency_code,
          CryptoCurrency |-> ctx.crypto_name,
          Region |-> ctx.region_code,
          PaymentMethod |-> ctx.payment_method,
          Provider |-> ProviderName(item),
          Rank |-> rank,
          AmountOut |-> amount_out,
          ExchangeRate |-> item.exchangeRate,
          MarketRate |-> rate,
          ExpectedAmountOut |-> expected_amount_out,
          Spread |-> spread,
          SpreadPercentage |-> spread_percentage,
          NetworkFee |-> network_fee,
          ProviderFee |-> provider_fee,
          ExtraFee |-> extra_fee,
          TotalExplicitFee |-> total_explicit_fee,
          TotalFeeIncludingSpread |-> total_fee_including_spread,
          TotalFeePercentage |->
              IF FeePercentageRaises(amount_in)
              THEN Zero
              ELSE TotalFeePercentage(total_fee_including_spread, amount_in) ]

\* lines 206-265: enumerate(quotes_data["success"], 1); the first item that
\* raises ends the loop, the rows appended before it stay in rows_to_insert
ProcessBatch(body, rate, ctx) ==
    LET bad  == {k \in 1..Len(body) : FeePercentageRaises(body[k].amountIn)}
        stop == IF bad = {} THEN Len(body) + 1 ELSE Min(bad)
    IN  [ raised |-> bad # {},
          rows   |-> [k \in 1..(stop - 1) |-> DeriveRow(body[k], k, rate, ctx)] ]

----------------------------------------------------------------------------
(* Upstream answers considered *)

\* `value` of a successful rate response; None: the key is absent
RateValues == {None, Zero, Num(2000, 1), Num(-1, 1)}

\* "429": HTTP 429; "http": another non-2xx status; "transport": the request
\* itself fails; "malformed": a 2xx answer whose body is not JSON; "shape": a
\* 2xx answer whose JSON is not an object; "nonnumeric": a 2xx answer whose
\* `value` is not a number
RateFailures == {"429", "http", "transport", "malformed", "shape", "nonnumeric"}

RateOutcomesOver(values) ==
    {[kind |-> "ok", value |-> v] : v \in values}
        \cup {[kind |-> k, value |-> None] : k \in RateFailures}

\* the exception lines 29-33 raise for a failed request
RateException(kind) ==
    CASE kind \in {"429", "http"} -> "HTTPError"
      [] kind = "transport" -> "ConnectionError"
      [] kind = "malformed" -> "JSONDecodeError"
      [] kind = "shape" -> "AttributeError"
      [] kind = "nonnumeric" -> "ValueError"

\* subclasses of requests.exceptions.RequestException among them
RequestExceptions == {"HTTPError", "ConnectionError", "JSONDecodeError"}

\* subclasses of Exception among them
Exceptions == RequestExceptions \cup {"AttributeError", "ValueError", "TypeError"}

\* the sweep is explored with the non-negative values
RateOutcomes == RateOutcomesOver(RateValues \ {Num(-1, 1)})

FeeChoices ==
    { [n |-> None, p |-> None, e |-> None],
      [n |-> Num(5, 1), p |-> Num(10, 1), e |-> Zero],
      [n |-> Num(1, 1), p |-> None, e |-> Num(2, 1)] }

\* an entry of the `success` list without providerInfo and without quote
EmptyEntry ==
    [ name |-> "<absent>", amountIn |-> None, amountOut |-> None, exchangeRate |-> None,
      networkFee |-> None, providerFee |-> None, extraFee |-> None ]

Items ==
    { [ name |-> "Transak", amountIn |-> a, amountOut |-> o, exchangeRate |-> Num(2010, 1),
        networkFee |-> f.n, providerFee |-> f.p, extraFee |-> f.e ] :
          a \in {None, Zero, Num(1000, 1)},
          o \in {None, Zero, Num(49, 100)},
          f \in FeeChoices }
        \cup {EmptyEntry}

ExampleItem ==
    [ name |-> "Transak", amountIn |-> Num(1000, 1), amountOut |-> Num(49, 100),
      exchangeRate |-> Num(2010, 1),
      networkFee |-> Num(5, 1), providerFee |-> Num(10, 1), extraFee |-> Zero ]

NoAmountOutItem == [ExampleItem EXCEPT !.name = "MoonPay", !.amountOut = None]

NoAmountInItem == [ExampleItem EXCEPT !.name = "Ramp", !.amountIn = None]

NoResponse == [kind |-> "none", has_success |-> FALSE, body |-> <<>>]

\* "transport": the request itself fails; "http": non-2xx status; "shape": a
\* 2xx answer whose JSON is not an object (quotes_data.get raises
\* AttributeError); "ok": a JSON object, whose `success` list is body when
\* has_success, and which has no `success` key otherwise
FailedFetches ==
    {[kind |-> k, has_success |-> FALSE, body |-> <<>>] : k \in {"transport", "http", "shape"}}

NoSuccessKey == [kind |-> "ok", has_success |-> FALSE, body |-> <<>>]

\* the exception get_quotes or line 205 raises for a failed fetch
QuotesException(kind) ==
    CASE kind = "http" -> "HTTPError"
      [] kind = "transport" -> "ConnectionError"
      [] kind = "shape" -> "AttributeError"

SweepOutcomes ==
    FailedFetches
        \cup {NoSuccessKey}
        \cup {[kind |-> "ok", has_success |-> TRUE, body |-> b] :
                b \in {<<>>, <<ExampleItem, NoAmountOutItem>>, <<NoAmountInItem>>}}

BatchOutcomes ==
    FailedFetches
        \cup {NoSuccessKey}
        \cup {[kind |-> "ok", has_success |-> TRUE, body |-> b] :
                b \in UNION {[1..n -> Items] : n \in 0..MaxProviders}}

----------------------------------------------------------------------------
(* main(): the sweep, lines 181-273 *)

AllKeys ==
    {<<CryptoIdOf(crypto_currencies[c]), CurrencyOf(regions[r])>> :
        c \in 1..NumCryptos, r \in 1..NumRegions}

\* line 186
CacheKey == <<CryptoIdOf(crypto_currencies[ci]), CurrencyOf(regions[ri])>>

\* str.upper() of a region code, line 249
Upper(region_code) ==
    CASE region_code = "de" -> "DE"
      [] region_code = "gb" -> "GB"
      [] region_code = "us-va" -> "US-VA"

Ctx ==
    [ amount |-> PRICE_RANGE[ai],
      crypto_name |-> crypto_currencies[ci],
      region_code |-> Upper(regions[ri]),
      currency_code |-> CurrencyOf(regions[ri]),
      payment_method |-> payment_methods_by_region(regions[ri])[pi] ]

\* line 187
CacheContains_Never(cache, key) == FALSE

CacheContains_RateOnly(cache, key) == key \in DOMAIN cache /\ cache[key] # None

CacheContains(cache, key) == key \in DOMAIN cache

\* lines 189-194: what is stored for the value get_market_rate returned
CacheEntry_NotNone(r) == r

CacheEntry(r) == IF Truthy(r) THEN r ELSE None

\* line 35
IsRateLimit_AnyStatus(kind) == kind \in {"429", "http"}

IsRateLimit(kind) == kind = "429"

\* lines 34 and 42: the except clauses of get_market_rate
RateHandled_RequestsOnly(exc) == exc = "HTTPError" \/ exc \in RequestExceptions

RateHandled(exc) == exc = "HTTPError" \/ exc \in Exceptions

\* line 267: the except clause around get_quotes
QuotesHandled_HTTPOnly(exc) == exc = "HTTPError"

QuotesHandled(exc) == exc \in RequestExceptions

\* line 37
BackoffSleeps_NotLast(slept, d, n) == IF n + 1 < retries THEN Append(slept, d) ELSE slept

BackoffSleeps(slept, d, n) == Append(slept, d)

\* lines 271 and 129
ShouldInsert_Always(rows) == TRUE

ShouldInsert(rows) == rows # <<>>

\* line 38
NextDelay_Constant(d) == d

NextDelay(d) == d * 2

\* lines 196-200
EnterPaymentLoop(cache) ==
    /\ market_rate' = cache[CacheKey]
    /\ rows_to_insert' = <<>>
    /\ pi' = 1
    /\ inserted' = <<>>
    /\ pc' = IF Len(payment_methods_by_region(regions[ri])) > 0 THEN "fetch" ELSE "insert"

\* lines 186-200, key in the cache
LookupHit ==
    /\ pc = "lookup"
    /\ CacheContains(market_rates_cache, CacheKey)
    /\ lookups' = [lookups EXCEPT ![CacheKey] = @ + 1]
    /\ responses' = <<>>
    /\ sleeps' = <<>>
    /\ EnterPaymentLoop(market_rates_cache)
    /\ UNCHANGED <<ai, ci, ri, market_rates_cache, quotes_data, batch_base, i, delay,
                   ret, rateCalls, delayed>>

\* lines 186-188 and 25-27, key not in the cache: get_market_rate is entered
CallGetMarketRate_NoWait ==
    /\ pc = "lookup"
    /\ ~CacheContains(market_rates_cache, CacheKey)
    /\ lookups' = [lookups EXCEPT ![CacheKey] = @ + 1]
    /\ rateCalls' = [rateCalls EXCEPT ![CacheKey] = @ + 1]
    /\ pc' = "fetch"
    /\ pi' = 1
    /\ rows_to_insert' = <<>>
    /\ inserted' = <<>>
    /\ responses' = <<>>
    /\ sleeps' = <<>>
    /\ UNCHANGED <<ai, ci, ri, market_rates_cache, market_rate, quotes_data, batch_base,
                   i, delay, ret, delayed>>

CallGetMarketRate ==
    /\ pc = "lookup"
    /\ ~CacheContains(market_rates_cache, CacheKey)
    /\ lookups' = [lookups EXCEPT ![CacheKey] = @ + 1]
    /\ rateCalls' = [rateCalls EXCEPT ![CacheKey] = @ + 1]
    /\ pc' = "rate"
    /\ i' = 0
    /\ delay' = InitialDelay
    /\ responses' = <<>>
    /\ sleeps' = <<>>
    /\ UNCHANGED <<ai, ci, ri, pi, market_rates_cache, market_rate, rows_to_insert,
                   quotes_data, batch_base, ret, delayed, inserted>>

\* get_market_rate returns r to line 188; lines 189-200
ReturnRate(r) ==
    /\ ret' = r
    /\ market_rates_cache' =
          [k \in DOMAIN market_rates_cache \cup {CacheKey} |->
              IF k = CacheKey THEN CacheEntry(r) ELSE market_rates_cache[k]]
    /\ EnterPaymentLoop(market_rates_cache')

\* one pass of the loop of lines 27-44: one upstream request and its handling
RateAttempt(o) ==
    /\ pc = "rate"
    /\ responses' = Append(responses, o.kind)
    /\ IF o.kind = "ok"
       THEN /\ ReturnRate(GetDefault(o.value, Zero))
            /\ UNCHANGED <<i, delay, sleeps>>
       ELSE IF IsRateLimit(o.kind)
       THEN /\ sleeps' = BackoffSleeps(sleeps, delay, i)
            /\ delay' = NextDelay(delay)
            /\ i' = i + 1
            /\ IF i + 1 < retries
               THEN UNCHANGED <<pc, pi, market_rates_cache, market_rate, rows_to_insert, ret, inserted>>
               ELSE ReturnRate(None)
       ELSE /\ IF RateHandled(RateException(o.kind))
               THEN ReturnRate(None)
               ELSE /\ pc' = "crashed"
                    /\ UNCHANGED <<pi, market_rates_cache, market_rate, rows_to_insert, ret, inserted>>
            /\ UNCHANGED <<i, delay, sleeps>>
    /\ UNCHANGED <<ai, ci, ri, quotes_data, batch_base, lookups, rateCalls, delayed>>

\* lines 201-269 for one payment method: get_quotes and the handling of its answer
GetQuotes(o) ==
    /\ pc = "fetch"
    /\ quotes_data' = o
    /\ batch_base' = Len(rows_to_insert)
    /\ LET res     == ProcessBatch(o.body, market_rate, Ctx)
           crash   == \/ o.kind # "ok" /\ ~QuotesHandled(QuotesException(o.kind))
                      \/ o.kind = "ok" /\ res.raised
           methods == payment_methods_by_region(regions[ri])
       IN  /\ rows_to_insert' =
                 IF o.kind = "ok" THEN rows_to_insert \o res.rows ELSE rows_to_insert
           /\ delayed' = (o.kind = "ok" /\ ~res.raised)
           /\ IF crash
              THEN pc' = "crashed" /\ pi' = pi
              ELSE IF pi < Len(methods)
              THEN pc' = "fetch" /\ pi' = pi + 1
              ELSE pc' = "insert" /\ pi' = pi
    /\ UNCHANGED <<ai, ci, ri, market_rates_cache, market_rate, i, delay, responses,
                   sleeps, ret, lookups, rateCalls, inserted>>

\* lines 271-273 and 127-134, then the next combination of the loops of lines 181-184
InsertRows ==
    /\ pc = "insert"
    /\ inserted' = IF ShouldInsert(rows_to_insert) THEN <<rows_to_insert>> ELSE inserted
    /\ IF ri < NumRegions
       THEN ri' = ri + 1 /\ pc' = "lookup" /\ UNCHANGED <<ai, ci>>
       ELSE IF ci < NumCryptos
       THEN ri' = 1 /\ ci' = ci + 1 /\ pc' = "lookup" /\ UNCHANGED ai
       ELSE IF ai < NumAmounts
       THEN ri' = 1 /\ ci' = 1 /\ ai' = ai + 1 /\ pc' = "lookup"
       ELSE pc' = "done" /\ UNCHANGED <<ai, ci, ri>>
    /\ UNCHANGED <<pi, market_rates_cache, market_rate, rows_to_insert, quotes_data,
                   batch_base, i, delay, responses, sleeps, ret, lookups, rateCalls,
                   delayed>>

ResolveRate == \E o \in RateOutcomes : RateAttempt(o)

FetchQuotes == \E o \in SweepOutcomes : GetQuotes(o)

Init ==
    /\ pc = "lookup"
    /\ ai = 1 /\ ci = 1 /\ ri = 1 /\ pi = 1
    /\ market_rates_cache = [k \in {} |-> None]
    /\ market_rate = None
    /\ rows_to_insert = <<>>
    /\ quotes_data = NoResponse
    /\ batch_base = 0
    /\ i = 0 /\ delay = InitialDelay
    /\ responses = <<>> /\ sleeps = <<>>
    /\ ret = None
    /\ lookups = [k \in AllKeys |-> 0]
    /\ rateCalls = [k \in AllKeys |-> 0]
    /\ delayed = FALSE
    /\ inserted = <<>>

Next == LookupHit \/ CallGetMarketRate \/ ResolveRate \/ FetchQuotes \/ InsertRows

Spec == Init /\ [][Next]_vars

----------------------------------------------------------------------------
(* One quote fetch and its derivation, over every answer of the upstream:  *)
(* the state of main() when the first pair has been resolved to rate r and *)
(* the first get_quotes call is about to be made.                          *)

\* what get_market_rate can return: None or the float of the `value` field
RateReturns == {None} \cup {GetDefault(v, Zero) : v \in RateValues}

InitBatch ==
    \E rv \in RateReturns :
        /\ pc = "fetch"
        /\ ai = 1 /\ ci = 1 /\ ri = 1 /\ pi = 1
        /\ market_rates_cache = [k \in {CacheKey} |-> CacheEntry(rv)]
        /\ market_rate = CacheEntry(rv)
        /\ rows_to_insert = <<>>
        /\ quotes_data = NoResponse
        /\ batch_base = 0
        /\ i = 0 /\ delay = InitialDelay
        /\ responses = <<IF rv = None THEN "transport" ELSE "ok">> /\ sleeps = <<>>
        /\ ret = rv
        /\ lookups = [k \in AllKeys |-> IF k = CacheKey THEN 1 ELSE 0]
        /\ rateCalls = [k \in AllKeys |-> IF k = CacheKey THEN 1 ELSE 0]
        /\ delayed = FALSE
        /\ inserted = <<>>

FetchAnyQuotes == quotes_data = NoResponse /\ \E o \in BatchOutcomes : GetQuotes(o)

NextBatch == FetchAnyQuotes

SpecBatch == InitBatch /\ [][NextBatch]_vars

----------------------------------------------------------------------------
(* Properties *)

Last(seq) == seq[Len(seq)]

RateLimited(seq) == {k \in 1..Len(seq) : seq[k] = "429"}

\* the latest get_market_rate call has returned
ResolutionOver == pc # "rate" /\ responses # <<>>

\* the current combination called get_market_rate and the call has returned:
\* ret is what it returned for CacheKey
ResolvedHere == pc \in {"fetch", "insert", "crashed"} /\ responses # <<>>

\* the rows the latest get_quotes answer produced are in rows_to_insert
\* (line 198 has not emptied the list since)
BatchVisible == quotes_data.kind = "ok" /\ ~(pc = "fetch" /\ pi = 1)

BatchRow(k) == rows_to_insert[batch_base + k]

RowKey(row) == <<CryptoIdOf(row.CryptoCurrency), row.FiatCurrency>>

\* C1: one call of get_market_rate issues at most 3 upstream requests; after
\* three rate-limited answers it returns None with no 4th request, and the
\* delays it slept are 1, 2, 4: strictly increasing from one rate-limited
\* attempt to the next.
C1_BoundedRetries ==
    /\ Len(responses) <= 3
    /\ (ResolutionOver /\ responses = <<"429", "429", "429">>) => ret = None
    /\ Len(sleeps) = Cardinality(RateLimited(responses))
    /\ \A k \in 1..Len(sleeps) : sleeps[k] = 2 ^ (k - 1)
    /\ \A k \in 1..(Len(sleeps) - 1) : sleeps[k] < sleeps[k + 1]

C1_Witness ==
    /\ ResolutionOver
    /\ responses = <<"429", "429", "429">>
    /\ sleeps = <<1, 2, 4>>
    /\ ret = None

\* C2: a failure other than HTTP 429 ends get_market_rate at once: it is the
\* last request of the call (only a 429 is ever followed by another request),
\* nothing is slept for it, and the call returns None, after any number of
\* rate-limited attempts.
C2_OtherFailureAbandons ==
    /\ \A k \in 1..(Len(responses) - 1) : responses[k] = "429"
    /\ Len(sleeps) = Cardinality(RateLimited(responses))
    /\ (responses # <<>> /\ Last(responses) \in RateFailures \ {"429"})
          => (pc # "rate" /\ ret = None)

C2_Witness ==
    /\ responses = <<"429", "429", "http">>
    /\ sleeps = <<1, 2>>
    /\ pc # "rate"
    /\ ret = None

\* C3: per cache key get_market_rate is called exactly once, by the first
\* lookup of the key; upstream requests (issued only while pc = "rate") belong
\* to that first lookup, and every later lookup finds the key in the cache,
\* also when the first lookup stored None for a failure or a zero value.
C3_OneResolutionPerPair ==
    /\ \A k \in AllKeys :
          /\ rateCalls[k] <= 1
          /\ lookups[k] >= 1 => rateCalls[k] = 1
          /\ k \in DOMAIN market_rates_cache => rateCalls[k] = 1
    /\ pc = "rate" => (lookups[CacheKey] = 1 /\ CacheKey \notin DOMAIN market_rates_cache)
    /\ (pc \in {"fetch", "insert"}) => CacheKey \in DOMAIN market_rates_cache

C3_Witness ==
    \E k \in AllKeys :
        /\ lookups[k] >= 2
        /\ k \in DOMAIN market_rates_cache
        /\ market_rates_cache[k] = None
        /\ rateCalls[k] = 1

\* C4: a failed quote fetch (transport error, non-2xx status, JSON of
\* unexpected shape) never terminates the sweep and adds no record.
C4_FetchFailureNeverFatal ==
    quotes_data.kind \in {"transport", "http", "shape"} =>
        /\ pc # "crashed"
        /\ ~(pc = "fetch" /\ pi = 1) => Len(rows_to_insert) = batch_base

\* C5: every quote whose amountIn is zero or absent still yields a record,
\* with totalFeePercentage = 0 and expectedAmountOut = spread =
\* spreadPercentage = spreadInFiat = 0, and no error is raised.
C5_PartialQuotesTotal ==
    BatchVisible =>
        \A k \in 1..Len(quotes_data.body) :
            quotes_data.body[k].amountIn \in {None, Zero} =>
                /\ pc # "crashed"
                /\ Len(rows_to_insert) >= batch_base + k
                /\ BatchRow(k).TotalFeePercentage = Zero
                /\ BatchRow(k).ExpectedAmountOut = Zero
                /\ BatchRow(k).Spread = Zero
                /\ BatchRow(k).SpreadPercentage = Zero
                /\ BatchRow(k).TotalFeeIncludingSpread = BatchRow(k).TotalExplicitFee

\* C6: a record derived under a rate that is None or <= 0 has
\* expectedAmountOut = spread = spreadPercentage = 0 and no spread in fiat
\* (totalFeeIncludingSpread = totalExplicitFee = the sum of the three fees),
\* whatever its amounts and fees.
C6_DegradedPath ==
    \A k \in 1..Len(rows_to_insert) :
        LET row == rows_to_insert[k]
        IN  (row.MarketRate = None \/ row.MarketRate[1] <= 0) =>
                /\ row.ExpectedAmountOut = Zero
                /\ row.Spread = Zero
                /\ row.SpreadPercentage = Zero
                /\ row.TotalExplicitFee =
                      Add(Add(row.NetworkFee, row.ProviderFee), row.ExtraFee)
                /\ row.TotalFeeIncludingSpread = row.TotalExplicitFee

C6_Witness ==
    \E k \in 1..Len(rows_to_insert) :
        /\ rows_to_insert[k].MarketRate = Num(-1, 1)
        /\ rows_to_insert[k].Amount = Num(1000, 1)
        /\ rows_to_insert[k].AmountOut = Num(49, 100)
        /\ rows_to_insert[k].NetworkFee = Num(5, 1)
        /\ rows_to_insert[k].Spread = Zero

\* C7: a record with rate > 0, amountIn > 0 and amountOut # 0 carries the
\* reference formulas: totalExplicitFee = sum of the fees; expectedAmountOut =
\* (amountIn - totalExplicitFee) / rate; spread = expectedAmountOut -
\* amountOut; totalFeeIncludingSpread = totalExplicitFee + spread * rate;
\* totalFeePercentage = totalFeeIncludingSpread / amountIn * 100; and the
\* worked example gives 0.4925, 0.0025, 15, 20, 2.
C7_ReferenceFormulas ==
    \A k \in 1..Len(rows_to_insert) :
        LET row      == rows_to_insert[k]
            fee      == Add(Add(row.NetworkFee, row.ProviderFee), row.ExtraFee)
            expected == Div(Sub(row.Amount, fee), row.MarketRate)
            spread   == Sub(expected, row.AmountOut)
            inFiat   == Mul(spread, row.MarketRate)
            total    == Add(fee, inFiat)
        IN  (/\ row.MarketRate # None /\ row.MarketRate[1] > 0
             /\ row.Amount # None /\ row.Amount[1] > 0
             /\ row.AmountOut # None /\ row.AmountOut[1] # 0) =>
                /\ row.TotalExplicitFee = fee
                /\ row.ExpectedAmountOut = expected
                /\ row.Spread = spread
                /\ row.TotalFeeIncludingSpread = total
                /\ row.TotalFeePercentage = Mul(Div(total, row.Amount), <<100, 1>>)
                /\ (/\ row.Amount = <<1000, 1>> /\ row.AmountOut = <<49, 100>>
                    /\ row.MarketRate = <<2000, 1>>
                    /\ row.NetworkFee = <<5, 1>> /\ row.ProviderFee = <<10, 1>>
                    /\ row.ExtraFee = <<0, 1>>) =>
                       /\ row.ExpectedAmountOut = <<197, 400>>
                       /\ row.Spread = <<1, 400>>
                       /\ row.SpreadPercentage = <<100, 197>>
                       /\ row.TotalExplicitFee = <<15, 1>>
                       /\ row.TotalFeeIncludingSpread = <<20, 1>>
                       /\ row.TotalFeePercentage = <<2, 1>>

C7_Witness ==
    \E k \in 1..Len(rows_to_insert) :
        /\ rows_to_insert[k].MarketRate = <<2000, 1>>
        /\ rows_to_insert[k].Amount = <<1000, 1>>
        /\ rows_to_insert[k].AmountOut = <<49, 100>>
        /\ rows_to_insert[k].NetworkFee = <<1, 1>>
        /\ rows_to_insert[k].ExtraFee = <<2, 1>>
        /\ rows_to_insert[k].ExpectedAmountOut = <<997, 2000>>

\* C8: a successful answer listing N providers yields exactly N records with
\* ranks 1..N in the listed order, entries with missing fields included.
C8_RanksMatchInput ==
    BatchVisible =>
        /\ pc # "crashed"
        /\ Len(rows_to_insert) = batch_base + Len(quotes_data.body)
        /\ \A k \in 1..Len(quotes_data.body) :
              /\ BatchRow(k).Rank = k
              /\ BatchRow(k).Provider = ProviderName(quotes_data.body[k])
              /\ BatchRow(k).Amount = quotes_data.body[k].amountIn
              /\ BatchRow(k).AmountOut = quotes_data.body[k].amountOut

\* C9: when the next get_quotes call is about to be made, the fixed delay
\* has been slept since the previous get_quotes call, whatever its outcome.
C9_DelayBetweenFetches ==
    (pc = "fetch" /\ quotes_data # NoResponse) => delayed

\* C10 as stated: a rate answer with value 0 or absent is cached as the
\* number 0, distinct from the failed marker None, and the records of the
\* pair carry market rate 0.
C10_ZeroCachedAsRate ==
    (ResolvedHere /\ ret = Zero) =>
        /\ market_rates_cache[CacheKey] = Zero
        /\ \A n \in 1..Len(rows_to_insert) : rows_to_insert[n].MarketRate = Zero

\* C10 amended: a rate answer with value 0 or absent makes get_market_rate
\* return 0, but main() caches None for it, the same marker as for a failed
\* resolution; the records of the pair carry market rate None and the
\* degraded zero metrics.  No cache entry and no record ever holds the rate 0.
C10_ZeroCachedAsFailed ==
    /\ (ResolvedHere /\ ret = Zero) =>
          /\ market_rates_cache[CacheKey] = None
          /\ \A n \in 1..Len(rows_to_insert) :
                /\ RowKey(rows_to_insert[n]) = CacheKey
                /\ rows_to_insert[n].MarketRate = None
                /\ rows_to_insert[n].ExpectedAmountOut = Zero
                /\ rows_to_insert[n].Spread = Zero
                /\ rows_to_insert[n].SpreadPercentage = Zero
                /\ rows_to_insert[n].TotalFeeIncludingSpread =
                      rows_to_insert[n].TotalExplicitFee
    /\ \A k \in DOMAIN market_rates_cache : market_rates_cache[k] # Zero
    /\ \A n \in 1..Len(rows_to_insert) : rows_to_insert[n].MarketRate # Zero

C10_Witness ==
    /\ ResolvedHere
    /\ ret = Zero
    /\ responses = <<"ok">>
    /\ \E n \in 1..Len(rows_to_insert) :
          /\ rows_to_insert[n].MarketRate = None
          /\ rows_to_insert[n].AmountOut = <<49, 100>>

\* main() was ended by an exception raised while a quote answer was handled
CrashedInQuotes ==
    \/ quotes_data.kind = "shape"
    \/ /\ quotes_data.kind = "ok"
       /\ \E k \in 1..Len(quotes_data.body) : quotes_data.body[k].amountIn = None

\* C11: a successful quote answer whose success list is empty or absent adds
\* no record, raises nothing and is not handled as a failure (the delay of
\* the normal path is slept), and no empty batch is ever handed to
\* insert_rows_json.
C11_EmptyIsNormal ==
    /\ (quotes_data.kind = "ok" /\ quotes_data.body = <<>>) =>
          /\ pc # "crashed"
          /\ delayed
          /\ ~(pc = "fetch" /\ pi = 1) => Len(rows_to_insert) = batch_base
    /\ \A j \in 1..Len(inserted) : inserted[j] # <<>>

C11_Witness ==
    /\ quotes_data = NoSuccessKey
    /\ pc \in {"lookup", "done"}
    /\ rows_to_insert = <<>>
    /\ inserted = <<>>
    /\ delayed

\* C12: no exception leaves get_market_rate: whatever the upstream answers
\* (success, 429, other non-2xx, transport error, non-JSON body, JSON of
\* unexpected shape, non-numeric value), the call returns a number or None,
\* and main() is never ended by the rate resolution.
C12_NoExceptionPastResolution ==
    /\ pc = "crashed" => CrashedInQuotes
    /\ ResolutionOver =>
          /\ Last(responses) = "ok" => (ret # None /\ ret[2] > 0)
          /\ Last(responses) # "ok" => ret = None

C12_Witness ==
    /\ responses = <<"429", "shape">>
    /\ pc = "fetch"
    /\ ret = None
    /\ CacheKey \in DOMAIN market_rates_cache

\* C13: a quote request is issued only when the pair has its cache entry and
\* market_rate holds it; rows appear only in the step that handles a
\* successful quote answer, for the payment method requested, and carry that
\* rate.
C13_ResolveFetchDerive ==
    [][ /\ pc = "fetch" =>
              /\ CacheKey \in DOMAIN market_rates_cache
              /\ market_rate = market_rates_cache[CacheKey]
        /\ Len(rows_to_insert') > Len(rows_to_insert) =>
              /\ pc = "fetch"
              /\ quotes_data'.kind = "ok"
              /\ \A k \in (Len(rows_to_insert) + 1)..Len(rows_to_insert') :
                    /\ rows_to_insert'[k].PaymentMethod = Ctx.payment_method
                    /\ rows_to_insert'[k].MarketRate = market_rates_cache[CacheKey]
      ]_vars

C13_Witness ==
    /\ pc = "insert"
    /\ responses = <<"429", "ok">>
    /\ Len(rows_to_insert) > 0
    /\ rows_to_insert[1].MarketRate = <<2000, 1>>

\* C14: with rate > 0 and amountIn > 0, whenever amountOut is present (0
\* included) spread = expectedAmountOut - amountOut, spreadInFiat = spread *
\* rate and spreadPercentage = spread / expectedAmountOut * 100 (0 when
\* expectedAmountOut <= 0); only an absent amountOut leaves the spread fields
\* 0, with expectedAmountOut as computed.
C14_SpreadWheneverPresent ==
    \A k \in 1..Len(rows_to_insert) :
        LET row      == rows_to_insert[k]
            expected == Div(Sub(row.Amount, row.TotalExplicitFee), row.MarketRate)
            spread   == Sub(expected, row.AmountOut)
        IN  (/\ row.MarketRate # None /\ row.MarketRate[1] > 0
             /\ row.Amount # None /\ row.Amount[1] > 0) =>
                /\ row.ExpectedAmountOut = expected
                /\ IF row.AmountOut # None
                   THEN /\ row.Spread = spread
                        /\ row.TotalFeeIncludingSpread =
                              Add(row.TotalExplicitFee, Mul(spread, row.MarketRate))
                        /\ row.SpreadPercentage =
                              IF expected[1] > 0
                              THEN Mul(Div(spread, expected), <<100, 1>>)
                              ELSE Zero
                   ELSE /\ row.Spread = Zero
                        /\ row.SpreadPercentage = Zero
                        /\ row.TotalFeeIncludingSpread = row.TotalExplicitFee

\* C15 as stated: every backoff sleep is followed by another attempt, so a
\* finished resolution has slept fewer times than it made requests, and at
\* most twice.
C15_NoSleepAfterLastAttempt ==
    ResolutionOver => (Len(sleeps) < Len(responses) /\ Len(sleeps) <= 2)

\* C15 amended: every rate-limited answer is followed by a backoff sleep, the
\* third one too: a resolution that ends after 3 rate-limited answers has
\* slept three times (1, 2, 4), the last sleep coming after its last
\* attempt; a resolution ended by another answer has slept once per earlier
\* rate-limited answer.
C15_SleepAfterEveryRateLimit ==
    ResolutionOver =>
        IF Last(responses) = "429"
        THEN /\ Len(responses) = 3
             /\ Len(sleeps) = Len(responses)
             /\ Last(sleeps) = 4
        ELSE Len(sleeps) = Len(responses) - 1

C15_Witness ==
    /\ ResolutionOver
    /\ Len(responses) = 3
    /\ Last(responses) = "429"
    /\ Len(sleeps) = 3
    /\ Last(sleeps) = 4
    /\ pc = "fetch"

\* C16: when get_quotes fails (transport error or non-2xx status) for one
\* payment method, the rows accumulated so far, the rate cache and the rate
\* in use are unchanged and the next payment method is fetched (or, after the
\* last one, the accumulated rows go to the sink): accumulated rows are
\* handed to insert_rows_json as they are.
C16_FailureFrame ==
    [][ /\ (pc = "fetch" /\ quotes_data'.kind \in {"transport", "http"}) =>
              /\ rows_to_insert' = rows_to_insert
              /\ market_rates_cache' = market_rates_cache
              /\ market_rate' = market_rate
              /\ inserted' = inserted
              /\ IF pi < Len(payment_methods_by_region(regions[ri]))
                 THEN pc' = "fetch" /\ pi' = pi + 1
                 ELSE pc' = "insert"
        /\ (pc = "insert" /\ rows_to_insert # <<>>) => inserted' = <<rows_to_insert>>
      ]_vars

C16_Witness ==
    /\ pc \in {"lookup", "done"}
    /\ quotes_data.kind = "transport"
    /\ inserted # <<>>
    /\ Len(inserted[1]) = 2
    /\ inserted[1][1].PaymentMethod = payment_methods_by_region(regions[ri])[1]

\* C17: a cache entry, once written, is never changed or removed, and every
\* row carries the cache entry of its pair: all rows of one pair carry the
\* same market rate, and a pair that failed keeps None.
C17_CacheWriteOnce ==
    [][ /\ \A k \in DOMAIN market_rates_cache :
              /\ k \in DOMAIN market_rates_cache'
              /\ market_rates_cache'[k] = market_rates_cache[k]
        /\ \A n \in 1..Len(rows_to_insert') :
              /\ RowKey(rows_to_insert'[n]) \in DOMAIN market_rates_cache'
              /\ rows_to_insert'[n].MarketRate =
                    market_rates_cache'[RowKey(rows_to_insert'[n])]
      ]_vars

C17_Witness ==
    /\ ai >= 2
    /\ \E n \in 1..Len(rows_to_insert) :
          /\ rows_to_insert[n].MarketRate = None
          /\ lookups[RowKey(rows_to_insert[n])] >= 2
          /\ market_rates_cache[RowKey(rows_to_insert[n])] = None

====
